---------------------------- MODULE Spec2Model ----------------------------
(***************************************************************************)
(* A model of the tax-PDF pipeline of this repository:                     *)
(*   src/pdf_splitter.py      TaxPdfSplitter  (OCR classification,         *)
(*                            grouping, writing the split PDFs)            *)
(*   src/ocr_json_builder.py  OcrJsonBuilder  (layout call per split PDF,  *)
(*                            metadata, table structuring, report), main   *)
(* Python strings are TLA+ strings; Len, SubSeq and \o act on them as on   *)
(* sequences of characters.  Python lists are sequences (1-based here,     *)
(* 0-based there), Python's None for an object is the empty sequence <<>>  *)
(* and the object itself is the one-element sequence.                      *)
(***************************************************************************)
EXTENDS Integers, Sequences, FiniteSets, TLC

VARIABLES
    pc,               \* position of the running program
    pdf_exists,       \* main: whether comparison.pdf is there
    num_pages,        \* the number of pages of comparison.pdf
    out_dir_exists,   \* whether the directory split_pdfs exists
    out_files,        \* the files in split_pdfs
    dir_deleted,      \* history: shutil.rmtree has removed split_pdfs
    ocr_count,        \* history: pages pytesseract has read
    ocr_error,        \* history: the OCR pass raised
    page_form_types,  \* split_pdf: the page records of detect_form_types_with_ocr
    gi,               \* group_pages_intelligently: pages consumed by the for loop
    groups,           \* group_pages_intelligently: the closed groups
    current_group,    \* group_pages_intelligently: <<>> (None) or <<group>>
    split_pdfs,       \* what create_split_pdfs has built, then what split_pdf returned
    report,           \* process_split_pdfs: the report
    di,               \* process_split_pdfs: split documents consumed by the for loop
    layout_calls,     \* history: each run_azure_layout call, its path and its return
    output_json,      \* tax_comparison_hybrid.json: <<>> until written, then <<report>>
    inf_grid,         \* infer_data_type: its grid argument
    inf_col,          \* infer_data_type: its col argument
    inf_result        \* infer_data_type: <<>> until it returned, then <<the type>>

pdfVars == <<pdf_exists, num_pages>>
dirVars == <<out_dir_exists, out_files, dir_deleted>>
groupVars == <<page_form_types, gi, groups, current_group>>
procVars == <<report, di, layout_calls, output_json>>
infVars == <<inf_grid, inf_col, inf_result>>

ocrVars == <<ocr_count, ocr_error>>

vars == <<pc, pdfVars, dirVars, ocrVars, groupVars, split_pdfs, procVars, infVars>>

\* ------------------------------------------------------------------ bounds

\* Longest page-record sequence handed to group_pages_intelligently.
MaxPages == 4

\* Most pages of comparison.pdf in a run of main.
MaxPdfPages == 2

\* Most split documents handed to process_split_pdfs.
MaxDocs == 2

\* Most rows of a grid handed to infer_data_type.
MaxGridRows == 7

\* ----------------------------------------------------------------- helpers

None == <<>>
Some(x) == <<x>>

RECURSIVE Flatten(_)
\* The concatenation of a sequence of sequences.
Flatten(ss) == IF ss = <<>> THEN <<>> ELSE Head(ss) \o Flatten(Tail(ss))

\* All sequences over S of length 0..n.
SeqsUpTo(S, n) == UNION {[1..k -> S] : k \in 0..n}

\* ------------------------------------------------------ Python's strings

Min(a, b) == IF a < b THEN a ELSE b

Ch(s, i) == SubSeq(s, i, i)

\* s[i:] with i counted from 1.
From(s, i) == SubSeq(s, i, Len(s))

\* needle in s
Contains(s, needle) ==
    \E i \in 1..(Len(s) - Len(needle) + 1) : SubSeq(s, i, i + Len(needle) - 1) = needle

Upper == "ABCDEFGHIJKLMNOPQRSTUVWXYZ"
LowerLetters == "abcdefghijklmnopqrstuvwxyz"

LowerCh(c) ==
    IF \E k \in 1..Len(Upper) : Ch(Upper, k) = c
    THEN Ch(LowerLetters, CHOOSE k \in 1..Len(Upper) : Ch(Upper, k) = c)
    ELSE c

RECURSIVE Lower(_)
\* str.lower()
Lower(s) == IF s = "" THEN "" ELSE LowerCh(Ch(s, 1)) \o Lower(From(s, 2))

Whitespace == {" ", "\t", "\n", "\r"}
Digits == {"0", "1", "2", "3", "4", "5", "6", "7", "8", "9"}

IsDigit(c) == c \in Digits

RECURSIVE LStrip(_)
LStrip(s) == IF s # "" /\ Ch(s, 1) \in Whitespace THEN LStrip(From(s, 2)) ELSE s

RECURSIVE RStrip(_)
RStrip(s) ==
    IF s # "" /\ Ch(s, Len(s)) \in Whitespace THEN RStrip(SubSeq(s, 1, Len(s) - 1)) ELSE s

\* str.strip()
Strip(s) == RStrip(LStrip(s))

RECURSIVE RemoveChars(_, _)
\* The chained str.replace(c, "") calls for the characters of a set.
RemoveChars(s, cs) ==
    IF s = "" THEN ""
    ELSE (IF Ch(s, 1) \in cs THEN "" ELSE Ch(s, 1)) \o RemoveChars(From(s, 2), cs)

\* ------------------------------------------- pdf_splitter.py: the grouper

\* The labels the grouper is exercised on (identify_form_type's outputs).
GroupLabels == {"Federal", "Unknown", "State - Ohio", "State - California"}

\* lines 78-83: one page record.
PageRecord(page_num, form_type, text_length) ==
    [page_num |-> page_num + 1, page_index |-> page_num,
     form_type |-> form_type, text_length |-> text_length]

ShouldGroupUnknownWithAny(previous_form, current_form) ==
    \/ previous_form = current_form
    \/ current_form = "Unknown"

\* should_group_with_previous
should_group_with_previous(previous_form, current_form) ==
    IF previous_form = current_form THEN TRUE
    ELSE IF previous_form = "Federal" /\ current_form = "Unknown" THEN TRUE
    ELSE FALSE

\* lines 180-184 and 194-198: a group seeded with one page.
NewGroup(page_info) ==
    [form_type |-> page_info.form_type,
     pages |-> <<page_info.page_num>>,
     page_indices |-> <<page_info.page_index>>]

\* lines 189-190: the page joins the current group.
AddToGroup(group, page_info) ==
    [group EXCEPT !.pages = Append(@, page_info.page_num),
                  !.page_indices = Append(@, page_info.page_index)]

\* A closing step that reopens an earlier closed group of the same label.
StartNewGroupMerging(gs, cur, page_info) ==
    IF \E k \in 1..Len(gs) : gs[k].form_type = page_info.form_type
    THEN LET k == CHOOSE j \in 1..Len(gs) : gs[j].form_type = page_info.form_type
         IN  [groups |-> [gs EXCEPT ![k] = AddToGroup(@, page_info)],
              current_group |-> cur]
    ELSE [groups |-> Append(gs, cur), current_group |-> NewGroup(page_info)]

\* lines 192-198: save the current group and start a new one.
StartNewGroup(gs, cur, page_info) ==
    [groups |-> Append(gs, cur), current_group |-> NewGroup(page_info)]

\* A return that forgets the group still open.
FinalGroupsDropLast(gs, cur) == gs

\* lines 200-204: add the last group and return.
FinalGroups(gs, cur) ==
    IF cur # None THEN Append(gs, cur[1]) ELSE gs

\* group_pages_intelligently, lines 169-173: the empty input returns [] at
\* once; otherwise the loop starts with no group.
GroupBegin ==
    /\ pc = "group"
    /\ IF page_form_types = <<>>
       THEN /\ pc' = "grouped"
            /\ groups' = <<>>
            /\ UNCHANGED <<gi, current_group>>
       ELSE /\ pc' = "group_loop"
            /\ groups' = <<>>
            /\ current_group' = None
            /\ gi' = 0
    /\ UNCHANGED <<page_form_types, pdfVars, dirVars, ocrVars, split_pdfs, procVars, infVars>>

\* group_pages_intelligently, lines 175-198: one iteration of the for loop.
GroupPage ==
    /\ pc = "group_loop"
    /\ gi < Len(page_form_types)
    /\ LET page_info == page_form_types[gi + 1]
           form_type == page_info.form_type
       IN  IF current_group = None
           THEN /\ current_group' = Some(NewGroup(page_info))
                /\ UNCHANGED groups
           ELSE IF should_group_with_previous(current_group[1].form_type, form_type)
                THEN /\ current_group' = Some(AddToGroup(current_group[1], page_info))
                     /\ UNCHANGED groups
                ELSE LET r == StartNewGroup(groups, current_group[1], page_info)
                     IN  /\ groups' = r.groups
                         /\ current_group' = Some(r.current_group)
    /\ gi' = gi + 1
    /\ UNCHANGED <<pc, page_form_types, pdfVars, dirVars, ocrVars, split_pdfs, procVars, infVars>>

\* group_pages_intelligently, lines 200-204: the loop is over.
GroupEnd ==
    /\ pc = "group_loop"
    /\ gi = Len(page_form_types)
    /\ groups' = FinalGroups(groups, current_group)
    /\ current_group' = None
    /\ pc' = "grouped"
    /\ UNCHANGED <<page_form_types, gi, pdfVars, dirVars, ocrVars, split_pdfs, procVars, infVars>>

\* ------------------------------ pdf_splitter.py: classification, split

\* identify_form_type
identify_form_type(text_lower, page_num) ==
    IF \/ Contains(text_lower, "form 1040")
       \/ (Contains(text_lower, "1040") /\ Contains(text_lower, "comparison"))
    THEN "Federal"
    ELSE IF Contains(text_lower, "north carolina")
    THEN (IF Contains(text_lower, "d-400") \/ Contains(text_lower, "d 400")
          THEN "State - North Carolina (D-400)"
          ELSE "State - North Carolina")
    ELSE IF Contains(text_lower, "ohio")
    THEN (IF \/ Contains(text_lower, "it-1040")
             \/ Contains(text_lower, "it 1040")
             \/ Contains(text_lower, "it1040")
          THEN "State - Ohio (IT-1040)"
          ELSE IF Contains(text_lower, "nonresident")
          THEN "State - Ohio (Nonresident)"
          ELSE "State - Ohio")
    ELSE IF Contains(text_lower, "california")
    THEN (IF Contains(text_lower, "540")
          THEN "State - California (540)"
          ELSE "State - California")
    ELSE IF Contains(text_lower, "new york")
    THEN (IF Contains(text_lower, "it-201") \/ Contains(text_lower, "it 201")
          THEN "State - New York (IT-201)"
          ELSE "State - New York")
    ELSE IF Contains(text_lower, "texas") THEN "State - Texas"
    ELSE IF Contains(text_lower, "florida") THEN "State - Florida"
    ELSE IF Contains(text_lower, "pennsylvania") THEN "State - Pennsylvania"
    ELSE IF Contains(text_lower, "new jersey") THEN "State - New Jersey"
    ELSE IF Contains(text_lower, "illinois") THEN "State - Illinois"
    ELSE IF Contains(text_lower, "massachusetts") THEN "State - Massachusetts"
    ELSE IF /\ Contains(text_lower, "state")
            /\ \/ Contains(text_lower, "income tax")
               \/ Contains(text_lower, "return")
               \/ Contains(text_lower, "comparison")
    THEN "State - Unknown (Page " \o ToString(page_num + 1) \o ")"
    ELSE "Unknown"

\* The texts pytesseract returns for a page in this model.
TextPool == {"Form 1040 U.S. Individual Income Tax Return", "",
             "OHIO IT 1040 Individual Return"}

\* main, lines 236-245: a missing comparison.pdf ends the run; otherwise
\* TaxPdfSplitter is built and split_pdf called.
MainStart ==
    /\ pc = "main"
    /\ pc' = IF pdf_exists THEN "convert" ELSE "no_pdf"
    /\ UNCHANGED <<pdfVars, dirVars, ocrVars, groupVars, split_pdfs, procVars, infVars>>

\* detect_form_types_with_ocr, lines 45-53: convert_from_path gives one
\* image per page.
ConvertPages ==
    /\ pc = "convert"
    /\ pc' = "ocr"
    /\ page_form_types' = <<>>
    /\ UNCHANGED <<pdfVars, dirVars, ocrVars, gi, groups, current_group,
                   split_pdfs, procVars, infVars>>

\* detect_form_types_with_ocr, lines 55-83: one page read and classified.
OcrPage ==
    /\ pc = "ocr"
    /\ Len(page_form_types) < num_pages
    /\ \E text \in TextPool :
          LET page_num == Len(page_form_types)
              form_type == identify_form_type(Lower(text), page_num)
          IN  page_form_types' =
                  Append(page_form_types, PageRecord(page_num, form_type, Len(text)))
    /\ ocr_count' = ocr_count + 1
    /\ UNCHANGED <<pc, pdfVars, dirVars, ocr_error, gi, groups, current_group,
                   split_pdfs, procVars, infVars>>

\* A failure that returns the records made before it.
OcrFailsKeepsRecords ==
    /\ pc \in {"convert", "ocr"}
    /\ pc = "ocr" => Len(page_form_types) < num_pages
    /\ page_form_types' = (IF pc = "ocr" THEN page_form_types ELSE <<>>)
    /\ ocr_error' = TRUE
    /\ pc' = "classified"
    /\ UNCHANGED <<pdfVars, dirVars, ocr_count, gi, groups, current_group,
                   split_pdfs, procVars, infVars>>

\* detect_form_types_with_ocr, lines 85-89: convert_from_path or
\* image_to_string raises; the records made so far are dropped and [] is
\* returned.
OcrFails ==
    /\ pc \in {"convert", "ocr"}
    /\ pc = "ocr" => Len(page_form_types) < num_pages
    /\ page_form_types' = <<>>
    /\ ocr_error' = TRUE
    /\ pc' = "classified"
    /\ UNCHANGED <<pdfVars, dirVars, ocr_count, gi, groups, current_group,
                   split_pdfs, procVars, infVars>>

\* detect_form_types_with_ocr, line 91: every page is classified.
OcrDone ==
    /\ pc = "ocr"
    /\ Len(page_form_types) = num_pages
    /\ pc' = "classified"
    /\ UNCHANGED <<pdfVars, dirVars, ocrVars, groupVars, split_pdfs, procVars, infVars>>

\* split_pdf, lines 17-29: no page records, no split: [] is returned.
SplitPdfCheck ==
    /\ pc = "classified"
    /\ IF page_form_types = <<>>
       THEN /\ split_pdfs' = <<>>
            /\ pc' = "split_returned"
       ELSE /\ pc' = "group"
            /\ UNCHANGED split_pdfs
    /\ UNCHANGED <<pdfVars, dirVars, ocrVars, groupVars, procVars, infVars>>

\* __init__, line 10: os.path.join(os.path.dirname("comparison.pdf"), "split_pdfs")
OutputDir == "split_pdfs"

RECURSIVE ReplaceChar(_, _, _)
\* str.replace(a, b) for a single character a.
ReplaceChar(s, a, b) ==
    IF s = "" THEN ""
    ELSE (IF Ch(s, 1) = a THEN b ELSE Ch(s, 1)) \o ReplaceChar(From(s, 2), a, b)

\* lines 243-245: the path of the counter-th split PDF.
OutputPath(counter, form_type) ==
    LET form_name == RemoveChars(ReplaceChar(form_type, " ", "_"), {"(", ")", "-"})
    IN  OutputDir \o "/" \o ToString(counter) \o "_" \o form_name \o ".pdf"

\* lines 258-262: the record of the counter-th split PDF.
SplitRecord(counter, group) ==
    [file_path |-> OutputPath(counter, group.form_type),
     form_type |-> group.form_type,
     pages |-> group.pages]

\* create_split_pdfs, lines 229-235: the output directory is removed if it
\* is there, and made anew.
PrepareOutputDir ==
    /\ pc = "grouped"
    /\ dir_deleted' = (dir_deleted \/ out_dir_exists)
    /\ out_dir_exists' = TRUE
    /\ out_files' = {}
    /\ split_pdfs' = <<>>
    /\ pc' = "write"
    /\ UNCHANGED <<pdfVars, ocrVars, groupVars, procVars, infVars>>

\* create_split_pdfs, lines 241-262: one group written to its own PDF.
WriteSplitPdf ==
    /\ pc = "write"
    /\ Len(split_pdfs) < Len(groups)
    /\ LET counter == Len(split_pdfs) + 1
           rec == SplitRecord(counter, groups[counter])
       IN  /\ out_files' = out_files \cup {rec.file_path}
           /\ split_pdfs' = Append(split_pdfs, rec)
    /\ UNCHANGED <<pc, pdfVars, out_dir_exists, dir_deleted, ocrVars, groupVars,
                   procVars, infVars>>

\* create_split_pdfs, lines 268-272: reading the source or writing a split
\* PDF raises; [] is returned, the files already written stay.
WriteFails ==
    /\ pc = "write"
    /\ Len(split_pdfs) < Len(groups)
    /\ split_pdfs' = <<>>
    /\ pc' = "split_returned"
    /\ UNCHANGED <<pdfVars, dirVars, ocrVars, groupVars, procVars, infVars>>

\* create_split_pdfs, line 274, and split_pdf, lines 40-41.
WriteDone ==
    /\ pc = "write"
    /\ Len(split_pdfs) = Len(groups)
    /\ pc' = "split_returned"
    /\ UNCHANGED <<pdfVars, dirVars, ocrVars, groupVars, split_pdfs, procVars, infVars>>

\* ------------------------------- ocr_json_builder.py: table structuring

\* A Python index i into a list of length n: valid from -n to n-1, the
\* negative ones counted from the end; anything else raises IndexError.
PyIndexOk(i, n) == -n <= i /\ i < n
PyIndex(i, n) == IF i < 0 THEN i + n ELSE i

\* lines 93-95 and 119-121: whether filling the grid raises IndexError.
GridRaises(table) ==
    \E k \in 1..Len(table.cells) :
        \/ ~PyIndexOk(table.cells[k].row_index, table.row_count)
        \/ ~PyIndexOk(table.cells[k].column_index, table.column_count)

RECURSIVE FillGrid(_, _, _)
\* lines 94-95: the cells written into the grid in list order, a later cell
\* of the same place overwriting an earlier one.  Row r, column c of the
\* code is grid[r + 1][c + 1] here.
FillGrid(grid, table, k) ==
    IF k > Len(table.cells) THEN grid
    ELSE LET cell == table.cells[k]
             r == PyIndex(cell.row_index, table.row_count) + 1
             c == PyIndex(cell.column_index, table.column_count) + 1
         IN  FillGrid([grid EXCEPT ![r][c] = Strip(cell.content)], table, k + 1)

\* lines 93-95: the grid of a table whose cells all lie inside it.
BuildGrid(table) ==
    FillGrid([r \in 1..table.row_count |-> [c \in 1..table.column_count |-> ""]],
             table, 1)

\* detect_form_type, lines 180-187: the checks made on one lower-cased cell.
CellFormType(c) ==
    IF Contains(c, "1040") THEN "Federal (1040)"
    ELSE IF Contains(c, "ohio") THEN "State - Ohio"
    ELSE IF Contains(c, "north carolina") \/ Contains(c, "d-400")
         THEN "State - North Carolina"
    ELSE IF Contains(c, "california") \/ Contains(c, "540") THEN "State - California"
    ELSE ""

\* detect_form_type
detect_form_type(grid) ==
    LET scanned == UNION {{<<r, c>> : c \in 1..Len(grid[r])} :
                             r \in 1..Min(3, Len(grid))}
        places == {p \in scanned : CellFormType(Lower(grid[p[1]][p[2]])) # ""}
    IN  IF places = {} THEN "Unknown"
        ELSE LET first == CHOOSE p \in places :
                            \A q \in places :
                                p[1] < q[1] \/ (p[1] = q[1] /\ p[2] <= q[2])
             IN  CellFormType(Lower(grid[first[1]][first[2]]))

\* line 202: re.search(r"[\d$,\(\)\-\.]", cell)
NumericChars == Digits \cup {"$", ",", "(", ")", "-", "."}
IsNumericLike(cell) == \E i \in 1..Len(cell) : Ch(cell, i) \in NumericChars

RECURSIVE CountCells(_, _, _, _)
\* infer_data_type, lines 196-205: the loop over the sampled rows, from the
\* k-th on; counts is <<numeric_count, text_count>>.
CountCells(rows, col, k, counts) ==
    IF k > Len(rows) THEN counts
    ELSE LET r == rows[k]
         IN  IF Len(r) <= col THEN CountCells(rows, col, k + 1, counts)
             ELSE IF r[col + 1] = "" THEN CountCells(rows, col, k + 1, counts)
             ELSE IF IsNumericLike(r[col + 1])
                  THEN CountCells(rows, col, k + 1, <<counts[1] + 1, counts[2]>>)
                  ELSE CountCells(rows, col, k + 1, <<counts[1], counts[2] + 1>>)

\* An inference that lets a tie go to numeric.
InferTieNumeric(grid, col) ==
    LET counts == CountCells(SubSeq(grid, 2, Min(6, Len(grid))), col, 1, <<0, 0>>)
    IN  IF counts[1] >= counts[2] THEN "numeric" ELSE "text"

\* infer_data_type; grid[1:6] is SubSeq(grid, 2, 6), cut at the grid's end.
infer_data_type(grid, col) ==
    LET counts == CountCells(SubSeq(grid, 2, Min(6, Len(grid))), col, 1, <<0, 0>>)
    IN  IF counts[1] > counts[2] THEN "numeric" ELSE "text"

\* clean_value
clean_value(value, data_type) ==
    IF value = "" THEN ""
    ELSE IF data_type = "numeric"
         THEN LET v == Strip(RemoveChars(value, {"$", ",", " ", "|"}))
              IN  IF v # "" /\ Ch(v, 1) = "(" /\ Ch(v, Len(v)) = ")"
                  THEN "-" \o SubSeq(v, 2, Len(v) - 1)
                  ELSE v
         ELSE Strip(value)

RECURSIVE SpanLen(_, _)
\* The length of the longest prefix of s with every character in cs.
SpanLen(s, cs) == IF s # "" /\ Ch(s, 1) \in cs THEN 1 + SpanLen(From(s, 2), cs) ELSE 0

\* line 221: re.match(r"^(\d+)\.\s*(.+)$", val): <<>> for no match, else
\* <<the line item>>.  \d+ takes every leading digit, \s* every blank after
\* the dot and gives the last one back when nothing else is left for (.+);
\* "." matches no newline, and $ allows one newline at the very end.
LineItemMatch(val) ==
    LET nd == SpanLen(val, Digits)
        rest == From(val, nd + 2)
        body == IF rest # "" /\ Ch(rest, Len(rest)) = "\n"
                THEN SubSeq(rest, 1, Len(rest) - 1) ELSE rest
        ws == SpanLen(body, Whitespace)
        desc == IF ws = Len(body) /\ ws > 0 THEN From(body, ws) ELSE From(body, ws + 1)
    IN  IF nd = 0 \/ nd >= Len(val) \/ Ch(val, nd + 1) # "." THEN None
        ELSE IF desc = "" \/ Contains(desc, "\n") THEN None
        ELSE Some([lineNumber |-> SubSeq(val, 1, nd), description |-> desc])

\* try_extract_line_item: the first field whose value matches.
try_extract_line_item(fields) ==
    IF \E k \in 1..Len(fields) : LineItemMatch(fields[k].value) # None
    THEN LineItemMatch(fields[CHOOSE k \in 1..Len(fields) :
              /\ LineItemMatch(fields[k].value) # None
              /\ \A j \in 1..(k - 1) : LineItemMatch(fields[j].value) = None].value)
    ELSE None

\* lines 132-139: the columns of a grid with at least one row.
TableColumns(grid, column_count) ==
    [k \in 1..column_count |->
        [columnIndex |-> k - 1,
         columnId |-> "col_" \o ToString(k - 1),
         columnName |-> IF grid[1][k] # "" THEN grid[1][k]
                        ELSE "Column_" \o ToString(k - 1),
         dataType |-> infer_data_type(grid, k - 1)]]

\* lines 143-152: the fields of row r (0-based).
RowFields(grid, columns, r) ==
    [k \in 1..Len(columns) |->
        [columnIndex |-> k - 1,
         columnId |-> columns[k].columnId,
         columnName |-> columns[k].columnName,
         value |-> grid[r + 1][k],
         cleanedValue |-> clean_value(grid[r + 1][k], columns[k].dataType)]]

\* lines 154-163: row r (0-based); lineItem is <<>> when the key is absent.
RowData(grid, columns, r) ==
    [rowIndex |-> r,
     rowId |-> "row_" \o ToString(r),
     fields |-> RowFields(grid, columns, r),
     lineItem |-> try_extract_line_item(RowFields(grid, columns, r))]

\* lines 119-163: whether structuring the table raises: a cell outside the
\* grid, or grid[0][c] on a grid with no rows.
TableRaises(table) ==
    \/ GridRaises(table)
    \/ table.row_count = 0 /\ table.column_count > 0

\* lines 119-163: the record of a table that does not raise.
TableData(table) ==
    LET grid == BuildGrid(table)
        columns == IF table.row_count = 0 THEN <<>>
                   ELSE TableColumns(grid, table.column_count)
    IN  [formType |-> detect_form_type(grid),
         rowCount |-> table.row_count,
         columnCount |-> table.column_count,
         columns |-> columns,
         data |-> [r \in 1..(table.row_count - 1) |-> RowData(grid, columns, r)]]

\* --------------------------------- ocr_json_builder.py: metadata, report

\* line 108: whether \d{3}-\d{2}-\d{4} matches the 11 characters from i on.
SsnAt(cell, i) ==
    /\ i + 10 <= Len(cell)
    /\ \A k \in {0, 1, 2, 4, 5, 7, 8, 9, 10} : IsDigit(Ch(cell, i + k))
    /\ Ch(cell, i + 3) = "-"
    /\ Ch(cell, i + 6) = "-"

\* line 108: re.search: <<>> for no match, else <<the leftmost match>>.
SsnSearch(cell) ==
    IF \E i \in 1..Len(cell) : SsnAt(cell, i)
    THEN LET i == CHOOSE j \in 1..Len(cell) :
                     SsnAt(cell, j) /\ \A h \in 1..(j - 1) : ~SsnAt(cell, h)
         IN  Some(SubSeq(cell, i, i + 10))
    ELSE None

\* line 33: the metadata dict; a key that is not in the dict is <<>> here.
EmptyMetadata == [taxpayerName |-> None, taxpayerId |-> None]

\* A cell step whose later SSN replaces the one recorded.
MetadataCellLastWins(cell, metadata) ==
    LET m1 == IF Contains(cell, "&") /\ Len(cell) > 10 /\ metadata.taxpayerName = None
              THEN [metadata EXCEPT !.taxpayerName = Some(cell)]
              ELSE metadata
    IN  IF cell = "" THEN metadata
        ELSE IF SsnSearch(cell) # None
             THEN [m1 EXCEPT !.taxpayerId = SsnSearch(cell)]
             ELSE m1

\* lines 99-110: what one cell of the scanned rows does to the metadata.
MetadataCell(cell, metadata) ==
    LET m1 == IF Contains(cell, "&") /\ Len(cell) > 10 /\ metadata.taxpayerName = None
              THEN [metadata EXCEPT !.taxpayerName = Some(cell)]
              ELSE metadata
    IN  IF cell = "" THEN metadata
        ELSE IF SsnSearch(cell) # None /\ m1.taxpayerId = None
             THEN [m1 EXCEPT !.taxpayerId = SsnSearch(cell)]
             ELSE m1

RECURSIVE ScanGrid(_, _, _, _, _)
\* lines 97-110: the scan of rows 0..rows-1, row by row and column by
\* column, from the k-th scanned cell on (k counted from 0).
ScanGrid(grid, rows, cols, k, metadata) ==
    IF k >= rows * cols THEN metadata
    ELSE ScanGrid(grid, rows, cols, k + 1,
                  MetadataCell(grid[(k \div cols) + 1][(k % cols) + 1], metadata))

RECURSIVE ExtractTables(_, _, _)
\* extract_metadata, lines 92-110, from the k-th table on: the metadata it
\* leaves, and whether filling a grid raised (the dict keeps what the
\* tables before that one put in it).
ExtractTables(tables, k, metadata) ==
    IF k > Len(tables) THEN [raised |-> FALSE, metadata |-> metadata]
    ELSE IF GridRaises(tables[k]) THEN [raised |-> TRUE, metadata |-> metadata]
    ELSE ExtractTables(tables, k + 1,
             ScanGrid(BuildGrid(tables[k]), Min(3, tables[k].row_count),
                      tables[k].column_count, 0, metadata))

\* extract_metadata
extract_metadata(result, metadata) == ExtractTables(result.tables, 1, metadata)

RECURSIVE HybridFrom(_, _)
\* generate_hybrid_structure, lines 117-169, from the k-th table on: a table
\* that raises is left out, the others are appended in order.
HybridFrom(tables, k) ==
    IF k > Len(tables) THEN <<>>
    ELSE IF TableRaises(tables[k]) THEN HybridFrom(tables, k + 1)
    ELSE <<TableData(tables[k])>> \o HybridFrom(tables, k + 1)

\* generate_hybrid_structure
generate_hybrid_structure(result, form_type) == HybridFrom(result.tables, 1)

\* lines 32-35
EmptyReport ==
    [documentInfo |-> [pageCount |-> 0, tableCount |-> 0, metadata |-> EmptyMetadata],
     tables |-> <<>>]

\* A report that puts a document's tables in front of the earlier ones.
ReportWithPrepend(rep, result, metadata, tables) ==
    [documentInfo |->
        [pageCount |-> rep.documentInfo.pageCount + result.pages,
         tableCount |-> rep.documentInfo.tableCount + Len(result.tables),
         metadata |-> metadata],
     tables |-> tables \o rep.tables]

\* A report that counts the tables it keeps, not the tables returned.
ReportWithKeptCount(rep, result, metadata, tables) ==
    [documentInfo |->
        [pageCount |-> rep.documentInfo.pageCount + result.pages,
         tableCount |-> rep.documentInfo.tableCount + Len(tables),
         metadata |-> metadata],
     tables |-> rep.tables \o tables]

\* lines 50-58: the report after a document: counts added, the metadata as
\* extract_metadata left it, the document's tables appended.
ReportWith(rep, result, metadata, tables) ==
    [documentInfo |->
        [pageCount |-> rep.documentInfo.pageCount + result.pages,
         tableCount |-> rep.documentInfo.tableCount + Len(result.tables),
         metadata |-> metadata],
     tables |-> rep.tables \o tables]

\* The tables the layout service returns in this model.
TableNameSsn ==
    [row_count |-> 2, column_count |-> 2, cells |-> <<
        [row_index |-> 0, column_index |-> 0, content |-> "Name"],
        [row_index |-> 0, column_index |-> 1, content |-> " John & Jane Doe "],
        [row_index |-> 1, column_index |-> 0, content |-> "12. Wages"],
        [row_index |-> 1, column_index |-> 1, content |-> "SSN 123-45-6789"]>>]
TableDeepSsn ==
    [row_count |-> 4, column_count |-> 1, cells |-> <<
        [row_index |-> 0, column_index |-> 0, content |-> "Ohio Bob & Alice"],
        [row_index |-> 1, column_index |-> 0, content |-> "$(1,234.50)"],
        [row_index |-> 3, column_index |-> 0, content |-> "555-66-7777"]>>]
TableTwoSsn ==
    [row_count |-> 1, column_count |-> 2, cells |-> <<
        [row_index |-> 0, column_index |-> 1, content |-> "111-22-3333"],
        [row_index |-> 0, column_index |-> 0, content |-> "x 987-65-4321, 222-33-4444"]>>]
TableNoRows ==
    [row_count |-> 0, column_count |-> 1, cells |-> <<>>]
TableBadCell ==
    [row_count |-> 1, column_count |-> 1, cells |-> <<
        [row_index |-> 0, column_index |-> 0, content |-> "Total"],
        [row_index |-> 1, column_index |-> 0, content |-> "1,000"]>>]

\* The table lists the layout service returns in this model.
TableLists ==
    {<<>>, <<TableNameSsn>>, <<TableTwoSsn, TableNameSsn>>, <<TableDeepSsn, TableTwoSsn>>,
     <<TableNoRows, TableDeepSsn>>, <<TableTwoSsn, TableNoRows, TableNameSsn>>,
     <<TableBadCell>>, <<TableNameSsn, TableBadCell, TableTwoSsn>>}

\* run_azure_layout, lines 76-83: the results the service may return for a
\* split PDF: one page entry per page of the PDF, and a table list.
LayoutResults(pdf_info) ==
    {[pages |-> Len(pdf_info.pages), tables |-> tables] : tables \in TableLists}

\* __init__, lines 16-17: what os.getenv may return: None, "" or a value.
EnvValues == {None, Some(""), Some("set")}

\* line 19: not value
Falsy(value) == IF value = None THEN TRUE ELSE value[1] = ""

\* main, lines 247-249: nothing was split, the run ends.
NothingSplit ==
    /\ pc = "split_returned"
    /\ split_pdfs = <<>>
    /\ pc' = "no_split"
    /\ UNCHANGED <<pdfVars, dirVars, ocrVars, groupVars, split_pdfs, procVars, infVars>>

\* main, line 254, and __init__, lines 14-24: the credentials are read and
\* the client built.
BuilderInit ==
    /\ pc = "split_returned"
    /\ split_pdfs # <<>>
    /\ \E endpoint \in EnvValues, key \in EnvValues :
          /\ ~(Falsy(endpoint) \/ Falsy(key))
          /\ pc' = "process_start"
    /\ UNCHANGED <<pdfVars, dirVars, ocrVars, groupVars, split_pdfs, procVars, infVars>>

\* __init__, lines 19-20: a credential is missing, ValueError leaves main.
BuilderInitFails ==
    /\ pc = "split_returned"
    /\ split_pdfs # <<>>
    /\ \E endpoint \in EnvValues, key \in EnvValues :
          /\ Falsy(endpoint) \/ Falsy(key)
          /\ pc' = "config_error"
    /\ UNCHANGED <<pdfVars, dirVars, ocrVars, groupVars, split_pdfs, procVars, infVars>>

\* process_split_pdfs, lines 30-35
ProcessStart ==
    /\ pc = "process_start"
    /\ report' = EmptyReport
    /\ di' = 0
    /\ pc' = "process"
    /\ UNCHANGED <<pdfVars, dirVars, ocrVars, groupVars, split_pdfs, layout_calls,
                   output_json, infVars>>

\* A failed layout call that ends the loop.
LayoutFailsEndsLoop ==
    /\ pc = "process"
    /\ di < Len(split_pdfs)
    /\ layout_calls' =
           Append(layout_calls, [file_path |-> split_pdfs[di + 1].file_path, result |-> None])
    /\ di' = Len(split_pdfs)
    /\ UNCHANGED <<pc, pdfVars, dirVars, ocrVars, groupVars, split_pdfs, report,
                   output_json, infVars>>

\* process_split_pdfs, lines 37-47, with run_azure_layout, lines 84-86: the
\* layout call raises, None comes back and the document is skipped.
LayoutFails ==
    /\ pc = "process"
    /\ di < Len(split_pdfs)
    /\ layout_calls' =
           Append(layout_calls, [file_path |-> split_pdfs[di + 1].file_path, result |-> None])
    /\ di' = di + 1
    /\ UNCHANGED <<pc, pdfVars, dirVars, ocrVars, groupVars, split_pdfs, report,
                   output_json, infVars>>

\* process_split_pdfs, lines 37-58: one document analysed and folded into
\* the report.
DocAnalysed ==
    /\ pc = "process"
    /\ di < Len(split_pdfs)
    /\ \E result \in LayoutResults(split_pdfs[di + 1]) :
          LET pdf_info == split_pdfs[di + 1]
              meta == extract_metadata(result, report.documentInfo.metadata)
              tables == generate_hybrid_structure(result, pdf_info.form_type)
          IN  /\ ~meta.raised
              /\ report' = ReportWith(report, result, meta.metadata, tables)
              /\ layout_calls' = Append(layout_calls,
                     [file_path |-> pdf_info.file_path, result |-> Some(result)])
    /\ di' = di + 1
    /\ UNCHANGED <<pc, pdfVars, dirVars, ocrVars, groupVars, split_pdfs,
                   output_json, infVars>>

\* process_split_pdfs, lines 50-54: extract_metadata raises IndexError on a
\* cell outside its table; nothing catches it, the run ends without a
\* report file.  The counts and the metadata of the tables before it are
\* already in the report.
DocRaises ==
    /\ pc = "process"
    /\ di < Len(split_pdfs)
    /\ \E result \in LayoutResults(split_pdfs[di + 1]) :
          LET pdf_info == split_pdfs[di + 1]
              meta == extract_metadata(result, report.documentInfo.metadata)
          IN  /\ meta.raised
              /\ report' = ReportWith(report, result, meta.metadata, <<>>)
              /\ layout_calls' = Append(layout_calls,
                     [file_path |-> pdf_info.file_path, result |-> Some(result)])
    /\ pc' = "crashed"
    /\ UNCHANGED <<pdfVars, dirVars, ocrVars, groupVars, split_pdfs, di,
                   output_json, infVars>>

\* process_split_pdfs, lines 60-69: the report is written and returned.
WriteReport ==
    /\ pc = "process"
    /\ di = Len(split_pdfs)
    /\ output_json' = Some(report)
    /\ pc' = "done"
    /\ UNCHANGED <<pdfVars, dirVars, ocrVars, groupVars, split_pdfs, report, di,
                   layout_calls, infVars>>

\* infer_data_type called on inf_grid and inf_col.
InferCall ==
    /\ pc = "infer"
    /\ inf_result' = Some(infer_data_type(inf_grid, inf_col))
    /\ pc' = "inferred"
    /\ UNCHANGED <<pdfVars, dirVars, ocrVars, groupVars, split_pdfs, procVars,
                   inf_grid, inf_col>>

\* ---------------------------------------------------------- specifications

\* What no run of the specification at hand touches.
IdlePdf == pdf_exists = TRUE /\ num_pages = 0
IdleDir == out_dir_exists = FALSE /\ out_files = {} /\ dir_deleted = FALSE
IdleOcr == ocr_count = 0 /\ ocr_error = FALSE
IdleGroup == page_form_types = <<>> /\ gi = 0 /\ groups = <<>> /\ current_group = None
IdleProc == report = EmptyReport /\ di = 0 /\ layout_calls = <<>> /\ output_json = None
IdleInfer == inf_grid = <<>> /\ inf_col = 0 /\ inf_result = None

\* A run of main: comparison.pdf is missing or has up to MaxPdfPages pages,
\* split_pdfs is missing or holds a file of an earlier run.
Init ==
    /\ pc = "main"
    /\ pdf_exists \in BOOLEAN
    /\ num_pages \in (IF pdf_exists THEN 0..MaxPdfPages ELSE {0})
    /\ out_dir_exists \in BOOLEAN
    /\ out_files = (IF out_dir_exists THEN {OutputDir \o "/9_Old.pdf"} ELSE {})
    /\ dir_deleted = FALSE
    /\ IdleOcr
    /\ IdleGroup
    /\ split_pdfs = <<>>
    /\ IdleProc
    /\ IdleInfer

Next ==
    \/ MainStart \/ ConvertPages \/ OcrPage \/ OcrFails \/ OcrDone \/ SplitPdfCheck
    \/ GroupBegin \/ GroupPage \/ GroupEnd
    \/ PrepareOutputDir \/ WriteSplitPdf \/ WriteFails \/ WriteDone
    \/ NothingSplit \/ BuilderInit \/ BuilderInitFails
    \/ ProcessStart \/ LayoutFails \/ DocAnalysed \/ DocRaises \/ WriteReport

Spec == Init /\ [][Next]_vars

\* group_pages_intelligently called on any page-record sequence of up to
\* MaxPages pages: page_num = 1..N in order, any of GroupLabels.
InitGroup ==
    /\ pc = "group"
    /\ \E labels \in SeqsUpTo(GroupLabels, MaxPages) :
          page_form_types = [i \in 1..Len(labels) |-> PageRecord(i - 1, labels[i], 0)]
    /\ gi = 0
    /\ groups = <<>>
    /\ current_group = None
    /\ IdlePdf /\ IdleDir /\ IdleOcr
    /\ split_pdfs = <<>>
    /\ IdleProc
    /\ IdleInfer

NextGroup == GroupBegin \/ GroupPage \/ GroupEnd

SpecGroup == InitGroup /\ [][NextGroup]_vars

\* The labels of the split documents process_split_pdfs is exercised on.
DocLabels == {"Federal", "State - Ohio (IT-1040)"}

\* process_split_pdfs called on the split documents of up to MaxDocs
\* one-page groups; neighbouring groups differ in their label, as the
\* grouper leaves them.
InitProcess ==
    /\ pc = "process_start"
    /\ \E labels \in SeqsUpTo(DocLabels, MaxDocs) :
          /\ \A i \in 1..(Len(labels) - 1) : labels[i] # labels[i + 1]
          /\ split_pdfs = [i \in 1..Len(labels) |->
                 SplitRecord(i, NewGroup(PageRecord(i - 1, labels[i], 0)))]
    /\ IdlePdf /\ IdleDir /\ IdleOcr
    /\ IdleGroup
    /\ IdleProc
    /\ IdleInfer

NextProcess == ProcessStart \/ LayoutFails \/ DocAnalysed \/ DocRaises \/ WriteReport

SpecProcess == InitProcess /\ [][NextProcess]_vars

\* The cells infer_data_type is exercised on.
InferCells == {"", "$5", "ab"}

\* infer_data_type called on any one-column grid of up to MaxGridRows rows,
\* for the column it has and for one it has not.
InitInfer ==
    /\ pc = "infer"
    /\ \E column \in SeqsUpTo(InferCells, MaxGridRows) :
          inf_grid = [r \in 1..Len(column) |-> <<column[r]>>]
    /\ inf_col \in {0, 1}
    /\ inf_result = None
    /\ IdlePdf /\ IdleDir /\ IdleOcr
    /\ IdleGroup
    /\ split_pdfs = <<>>
    /\ IdleProc

NextInfer == InferCall

SpecInfer == InitInfer /\ [][NextInfer]_vars

\* ------------------------------------------------------------------ claims

PageLabels == [i \in 1..Len(page_form_types) |-> page_form_types[i].form_type]
GroupPagesOf(gs) == [k \in 1..Len(gs) |-> gs[k].pages]
OneToN(n) == [i \in 1..n |-> i]

\* C1: the groups' page lists, concatenated in group order, are exactly
\* 1..N: every page in exactly one group, none missing or duplicated, order
\* kept; the empty input gives the empty group list.  While the loop runs,
\* the closed groups and the open one together hold exactly the pages
\* consumed so far.
GroupsPartitionPages ==
    /\ pc = "grouped" =>
          /\ Flatten(GroupPagesOf(groups)) = OneToN(Len(page_form_types))
          /\ \A k \in 1..Len(groups) : groups[k].pages # <<>>
          /\ page_form_types = <<>> => groups = <<>>
    /\ pc = "group_loop" =>
          Flatten(GroupPagesOf(groups \o current_group)) = OneToN(gi)

GroupsPartitionPagesWitness ==
    /\ pc = "grouped"
    /\ Len(page_form_types) = 4
    /\ Len(groups) = 2
    /\ Len(groups[1].pages) = 3

\* One step of the loop on an "Unknown" page met under another label.
UnknownStep ==
    (/\ pc = "group_loop"
     /\ gi < Len(page_form_types)
     /\ current_group # None
     /\ page_form_types[gi + 1].form_type = "Unknown"
     /\ current_group[1].form_type # "Unknown")
    => LET joined == /\ groups' = groups
                     /\ current_group'[1].pages =
                            Append(current_group[1].pages, gi + 1)
       IN  /\ joined <=> current_group[1].form_type = "Federal"
           /\ joined => current_group'[1].form_type = "Federal"
           /\ ~joined => /\ groups' = Append(groups, current_group[1])
                         /\ current_group'[1].pages = <<gi + 1>>
                         /\ current_group'[1].form_type = "Unknown"

\* The two sequences of the claim, grouped.
UnknownExamples ==
    pc = "grouped" =>
      /\ PageLabels = <<"Federal", "Unknown", "Federal">> =>
            /\ Len(groups) = 1
            /\ groups[1].pages = <<1, 2, 3>>
            /\ groups[1].form_type = "Federal"
      /\ PageLabels = <<"State - Ohio", "Unknown", "State - Ohio">> =>
            /\ GroupPagesOf(groups) = << <<1>>, <<2>>, <<3>> >>
            /\ [k \in 1..3 |-> groups[k].form_type] =
                   <<"State - Ohio", "Unknown", "State - Ohio">>

\* C2: an "Unknown" page met while the open group has another label joins
\* that group exactly when the group's label is "Federal", and the group
\* keeps the label "Federal"; [Federal, Unknown, Federal] is one 3-page
\* group and [State, Unknown, State] is three single-page groups.
UnknownGluesOnlyToFederal == [][UnknownStep]_vars /\ []UnknownExamples

UnknownGluesOnlyToFederalWitness ==
    /\ pc = "grouped"
    /\ PageLabels = <<"State - California", "Unknown", "Federal", "Unknown">>
    /\ Len(groups) = 3

\* What one step may do to the closed groups.
ClosedStep ==
    /\ Len(groups') >= Len(groups)
    /\ SubSeq(groups', 1, Len(groups)) = groups
    /\ Len(groups') > Len(groups) =>
          /\ current_group # None
          /\ groups' = Append(groups, current_group[1])

\* The sequence of the claim, grouped.
ClosedExample ==
    (/\ pc = "grouped"
     /\ PageLabels = <<"State - Ohio", "State - Ohio", "State - California", "State - Ohio">>)
    => /\ GroupPagesOf(groups) = << <<1, 2>>, <<3>>, <<4>> >>
       /\ [k \in 1..3 |-> groups[k].form_type] =
              <<"State - Ohio", "State - California", "State - Ohio">>

\* C3: a closed group is never touched again: every step keeps the closed
\* groups as they are and at most appends the group that was open, also when
\* a later page carries a closed group's label; [Ohio, Ohio, California,
\* Ohio] gives the 3 groups [1,2], [3], [4].
ClosedGroupsNeverReopen == [][ClosedStep]_vars /\ []ClosedExample

ClosedGroupsNeverReopenWitness ==
    /\ pc = "grouped"
    /\ PageLabels = <<"State - Ohio", "State - Ohio", "State - California", "State - Ohio">>
    /\ Len(groups) = 3

\* What the claims about process_split_pdfs read.
Metadata == report.documentInfo.metadata
InLoop == pc \in {"process", "done"}
Analysed(k) == layout_calls[k].result # None
CallTables(k) == IF Analysed(k) THEN layout_calls[k].result[1].tables ELSE <<>>
CleanTable(t) == ~TableRaises(t)

\* The tables the k-th call leaves in the report: those that can be
\* structured, in the order the service gave them.
KeptTables(k) ==
    LET kept == SelectSeq(CallTables(k), CleanTable)
    IN  [j \in 1..Len(kept) |-> TableData(kept[j])]

\* C4: a malformed table is skipped: it never ends the run, and while the
\* loop runs and when the report is written the report holds exactly the
\* other tables of every analysed document.
MalformedTableIsSkipped ==
    /\ pc # "crashed"
    /\ InLoop => report.tables = Flatten([k \in 1..Len(layout_calls) |-> KeptTables(k)])

\* A step that records a failed layout call.
SkipStep ==
    (/\ Len(layout_calls') = Len(layout_calls) + 1
     /\ layout_calls'[Len(layout_calls')].result = None)
    => /\ report' = report
       /\ di' = di + 1
       /\ pc' = "process"
       /\ split_pdfs' = split_pdfs

\* The calls made so far are those of the first documents, in order.
CallsInOrder ==
    /\ InLoop =>
          /\ Len(layout_calls) = di
          /\ \A k \in 1..di : layout_calls[k].file_path = split_pdfs[k].file_path
    /\ pc = "done" => di = Len(split_pdfs)

\* C5: a failed layout call leaves the report as it was and moves on to the
\* next document; the calls made are those of the documents in order, and
\* the report is written only after a call for every document.
FailedLayoutSkipsDocument == [][SkipStep]_vars /\ []CallsInOrder

FailedLayoutSkipsDocumentWitness ==
    /\ pc = "done"
    /\ Len(layout_calls) = 2
    /\ ~Analysed(1)
    /\ Analysed(2)
    /\ report.documentInfo.tableCount = 3
    /\ Len(report.tables) = 2

\* The cells extract_metadata scans, as <<call, table, row, column>>, rows
\* and columns counted from 0: rows 0-2 of every table of every analysed
\* document.
TablePlaces(k, t) ==
    {<<k, t, r, c>> : r \in {r \in 0..2 : r < CallTables(k)[t].row_count},
                      c \in 0..(CallTables(k)[t].column_count - 1)}
ScannedPlaces ==
    UNION {UNION {TablePlaces(k, t) : t \in 1..Len(CallTables(k))} :
              k \in 1..Len(layout_calls)}

PlaceCell(p) == BuildGrid(CallTables(p[1])[p[2]])[p[3] + 1][p[4] + 1]

\* Document, then table, then row, then column.
Before(p, q) ==
    \/ p[1] < q[1]
    \/ p[1] = q[1] /\ p[2] < q[2]
    \/ p[1] = q[1] /\ p[2] = q[2] /\ p[3] < q[3]
    \/ p[1] = q[1] /\ p[2] = q[2] /\ p[3] = q[3] /\ p[4] < q[4]

SsnPlaces == {p \in ScannedPlaces : SsnSearch(PlaceCell(p)) # None}
NamePlaces == {p \in ScannedPlaces : Contains(PlaceCell(p), "&") /\ Len(PlaceCell(p)) > 10}
FirstOf(places) == CHOOSE p \in places : \A q \in places : q = p \/ Before(p, q)

\* What one step may do to the recorded metadata.
MetadataKept ==
    /\ Metadata.taxpayerId # None =>
          report'.documentInfo.metadata.taxpayerId = Metadata.taxpayerId
    /\ Metadata.taxpayerName # None =>
          report'.documentInfo.metadata.taxpayerName = Metadata.taxpayerName

\* The metadata held is that of the first matching scanned cells.
MetadataIsFirst ==
    InLoop =>
      /\ Metadata.taxpayerId =
            IF SsnPlaces = {} THEN None ELSE SsnSearch(PlaceCell(FirstOf(SsnPlaces)))
      /\ Metadata.taxpayerName =
            IF NamePlaces = {} THEN None ELSE Some(PlaceCell(FirstOf(NamePlaces)))

\* C6: a recorded taxpayerId or taxpayerName never changes or goes away,
\* and the taxpayerId (the taxpayerName) held is that of the first matching
\* cell in document, table, row, column order over rows 0-2 of the tables
\* of the analysed documents.
MetadataFirstWins == [][MetadataKept]_vars /\ []MetadataIsFirst

MetadataFirstWinsWitness ==
    /\ pc = "done"
    /\ Len(layout_calls) = 2
    /\ CallTables(1) = <<TableDeepSsn, TableTwoSsn>>
    /\ CallTables(2) = <<TableNameSsn>>
    /\ Metadata.taxpayerId = Some("987-65-4321")
    /\ Metadata.taxpayerName = Some("Ohio Bob & Alice")

\* C7: when the credentials are found missing, nothing has been processed
\* yet: no page read by OCR, the output directory not removed and holding no
\* split PDF, no split document built.
ConfigErrorBeforeProcessing ==
    pc = "config_error" =>
      /\ ocr_count = 0
      /\ ~dir_deleted
      /\ out_files \subseteq {OutputDir \o "/9_Old.pdf"}
      /\ split_pdfs = <<>>

\* C8: once the OCR pass has raised there are no page records, the run is
\* on its way out of split_pdf with nothing split, no group was formed and
\* the output directory is as the run found it.
OcrFailureSplitsNothing ==
    ocr_error =>
      /\ page_form_types = <<>>
      /\ split_pdfs = <<>>
      /\ pc \in {"classified", "split_returned", "no_split"}
      /\ groups = <<>> /\ current_group = None /\ gi = 0
      /\ ~dir_deleted
      /\ out_files = (IF out_dir_exists THEN {OutputDir \o "/9_Old.pdf"} ELSE {})

OcrFailureSplitsNothingWitness ==
    /\ ocr_error
    /\ ocr_count = 1
    /\ num_pages = 2
    /\ out_dir_exists
    /\ pc = "no_split"

\* C9: the split documents are the groups in grouping order, the layout
\* calls are those of the split documents in that order, and the report's
\* tables are the tables kept of each call, call after call, each call's
\* in the order the service returned them.
TablesInDocumentOrder ==
    /\ split_pdfs # <<>> =>
          /\ Len(split_pdfs) <= Len(groups)
          /\ \A k \in 1..Len(split_pdfs) :
                /\ split_pdfs[k].pages = groups[k].pages
                /\ split_pdfs[k].form_type = groups[k].form_type
    /\ InLoop =>
          /\ Len(split_pdfs) = Len(groups)
          /\ Len(layout_calls) = di
          /\ \A k \in 1..di : layout_calls[k].file_path = split_pdfs[k].file_path
          /\ report.tables = Flatten([k \in 1..di |-> KeptTables(k)])

TablesInDocumentOrderWitness ==
    /\ pc = "done"
    /\ Len(groups) = 2
    /\ CallTables(1) = <<TableTwoSsn, TableNoRows, TableNameSsn>>
    /\ CallTables(2) = <<TableNoRows, TableDeepSsn>>
    /\ Len(report.tables) = 3
    /\ report.tables[3].formType = "State - Ohio"

\* The rows infer_data_type samples: rows 1 to 5 of the grid (row 0 is the
\* header), as far as the grid goes, that have the column.
SampledRows ==
    {r \in 1..5 : r + 1 <= Len(inf_grid) /\ inf_col < Len(inf_grid[r + 1])}
SampledCell(r) == inf_grid[r + 1][inf_col + 1]

\* C10 as claimed: numeric exactly when the sampled cells that match the
\* numeric character class outnumber the sampled cells that do not.
InferCountsEverySampledCell ==
    pc = "inferred" =>
      (inf_result = Some("numeric") <=>
          Cardinality({r \in SampledRows : IsNumericLike(SampledCell(r))}) >
          Cardinality({r \in SampledRows : ~IsNumericLike(SampledCell(r))}))

\* C10 as amended: numeric exactly when, among the sampled cells that are
\* not empty, those that match the numeric character class outnumber those
\* that do not; text otherwise, so on a tie and with no data rows.
InferCountsNonEmptySampledCells ==
    pc = "inferred" =>
      /\ inf_result \in {Some("numeric"), Some("text")}
      /\ inf_result = Some("numeric") <=>
            Cardinality({r \in SampledRows :
                            SampledCell(r) # "" /\ IsNumericLike(SampledCell(r))}) >
            Cardinality({r \in SampledRows :
                            SampledCell(r) # "" /\ ~IsNumericLike(SampledCell(r))})

InferCountsNonEmptySampledCellsWitness ==
    /\ pc = "inferred"
    /\ inf_col = 0
    /\ inf_grid = << <<"$5">>, <<"$5">>, <<"">>, <<"ab">>, <<"">>, <<"">>, <<"$5">> >>
    /\ inf_result = Some("text")

RECURSIVE SumTo(_, _)
\* f[1] + ... + f[n]
SumTo(f, n) == IF n = 0 THEN 0 ELSE f[n] + SumTo(f, n - 1)

\* The tables and the pages the layout service returned for the k-th call;
\* none for a call that failed.
ReturnedTables(k) == Len(CallTables(k))
ReturnedPages(k) == IF Analysed(k) THEN layout_calls[k].result[1].pages ELSE 0

\* The returned tables of the k-th call that structuring leaves out.
OmittedTables(k) ==
    Cardinality({t \in 1..Len(CallTables(k)) : TableRaises(CallTables(k)[t])})

\* C11: tableCount (pageCount) is the sum of the table (page) counts the
\* layout service returned for the documents analysed so far, whatever
\* structuring made of the tables; so tableCount is never below the number
\* of tables in the report, it is above it exactly when an analysed
\* document has a table that structuring leaves out, and after any prefix
\* of the loop the difference is the number of such tables.
CountsAreAdditive ==
    LET n == Len(layout_calls)
        tableCount == report.documentInfo.tableCount
    IN  /\ tableCount = SumTo([k \in 1..n |-> ReturnedTables(k)], n)
        /\ report.documentInfo.pageCount = SumTo([k \in 1..n |-> ReturnedPages(k)], n)
        /\ tableCount >= Len(report.tables)
        /\ tableCount > Len(report.tables) <=> \E k \in 1..n : OmittedTables(k) > 0
        /\ InLoop => tableCount - Len(report.tables) =
                         SumTo([k \in 1..n |-> OmittedTables(k)], n)

CountsAreAdditiveWitness ==
    /\ pc = "process"
    /\ di = 2
    /\ CallTables(1) = <<TableNoRows, TableDeepSsn>>
    /\ CallTables(2) = <<TableTwoSsn, TableNameSsn>>
    /\ report.documentInfo.tableCount = 4
    /\ Len(report.tables) = 3

=============================================================================
